---- MODULE Spec2Model ----
(***************************************************************************)
(* Model of the huffmin Huffman codec (backend/internal/huffman).          *)
(* Byte sequences are sequences of integers 0..255, bit-strings ("0"/"1"   *)
(* Go strings) are sequences over {0,1}, a Go map is a function whose      *)
(* range order is chosen nondeterministically by the caller (Go iterates   *)
(* maps in an unspecified order), and a *Node is a record; the nil pointer *)
(* is the record Nil.                                                      *)
(***************************************************************************)
EXTENDS Integers, Sequences, FiniteSets, TLC

\* ---------------------------------------------------------------- bounds
MaxLen == 4
MaxEntries == 2
MaxCount == 1
MaxBits == 9
MaxData == 1
MaxFreq == 2
MaxCode == 3
MaxLimb == 1
NumRequests == 2

\* byte values that occur in the inputs of the model
Symbols == {0, 65, 255}
\* byte values of the frequency tables whose tree is built step by step
TreeSymbols == {0, 65, 66, 255}
\* the uploads of the CompressFile requests: file names and contents
Filenames == {"a.txt", "b.txt"}
UploadContents == {<<65>>, <<65, 66>>, <<66, 66, 65>>}
\* the symbols of the code tables and contents handed to encodeDataWithCount
EncSymbols == {65, 66}
\* byte values of the packed section handed to the decode loop: 00011011, 10101100
DecBytes == {27, 172}
\* byte values of the packed section of hand-made blobs (10100101, 11111111)
DataBytes == {165, 255}

\* ---------------------------------------------------------------- helpers
Nil == [nil |-> TRUE]

EmptyMap == [x \in {} |-> 0]

Range(s) == {s[i] : i \in DOMAIN s}

\* every order in which a Go range statement may visit the keys S of a map
Perms(S) == {p \in [1..Cardinality(S) -> S] : \A i, j \in DOMAIN p : p[i] = p[j] => i = j}

SeqsUpTo(S, n) == UNION {[1..k -> S] : k \in 0..n}

Pow2(n) == 2 ^ n

\* binary.Write(..., binary.LittleEndian, uint16(n))
LE16(n) == <<n % 256, (n \div 256) % 256>>

\* binary.Write(..., binary.LittleEndian, uint32(n)): the conversion keeps the
\* low 32 bits, the four bytes are least significant first
LE32(n) == <<n % 256, (n \div 256) % 256, (n \div 65536) % 256, (n \div 16777216) % 256>>

\* binary.Write(..., binary.LittleEndian, uint64(n)); the integers of the model
\* are below 2^31, so bytes 4..7 are zero
LE64(n) == LE32(n) \o <<0, 0, 0, 0>>

\* binary.Read(..., binary.LittleEndian, &v) on the bytes bs, least significant first
RECURSIVE LEValue(_)
LEValue(bs) == IF bs = <<>> THEN 0 ELSE Head(bs) + 256 * LEValue(Tail(bs))

\* ---------------------------------------------------------------- PriorityQueue
\* pq is a sequence of nodes; Go index i is position i+1
\* Less without the MinChar tie-break
LessFreqOnly(pq, i, j) == pq[i + 1].Freq < pq[j + 1].Freq

Less(pq, i, j) ==
    IF pq[i + 1].Freq # pq[j + 1].Freq
    THEN pq[i + 1].Freq < pq[j + 1].Freq
    ELSE pq[i + 1].MinChar < pq[j + 1].MinChar

Swap(pq, i, j) == [pq EXCEPT ![i + 1] = pq[j + 1], ![j + 1] = pq[i + 1]]

\* container/heap up(h, j)
RECURSIVE heapUp(_, _)
heapUp(pq, j) ==
    IF j = 0 THEN pq
    ELSE LET i == (j - 1) \div 2
         IN IF ~Less(pq, j, i) THEN pq ELSE heapUp(Swap(pq, i, j), i)

\* container/heap down(h, i, n)
RECURSIVE heapDown(_, _, _)
heapDown(pq, i, n) ==
    LET j1 == 2 * i + 1
    IN IF j1 >= n THEN pq
       ELSE LET j == IF j1 + 1 < n /\ Less(pq, j1 + 1, j1) THEN j1 + 1 ELSE j1
            IN IF ~Less(pq, j, i) THEN pq ELSE heapDown(Swap(pq, i, j), j, n)

\* heap.Push(pq, x): PriorityQueue.Push appends, then up(len-1)
heapPush(pq, x) == heapUp(Append(pq, x), Len(pq))

\* heap.Pop(pq): swap(0, n), down(0, n), then PriorityQueue.Pop removes the last
heapPop(pq) ==
    LET n == Len(pq) - 1
        h == heapDown(Swap(pq, 0, n), 0, n)
    IN [item |-> h[n + 1], pq |-> SubSeq(h, 1, n)]

\* ---------------------------------------------------------------- codec
\* buildFrequencyTable with the first occurrence of a byte creating its entry
\* without counting it
RECURSIVE buildFrequencyTableFirstFree(_)
buildFrequencyTableFirstFree(data) ==
    IF data = <<>> THEN EmptyMap
    ELSE LET n == Len(data)
             freq == buildFrequencyTableFirstFree(SubSeq(data, 1, n - 1))
             b == data[n]
         IN [x \in DOMAIN freq \cup {b} |->
                IF x = b THEN (IF b \in DOMAIN freq THEN freq[b] + 1 ELSE 0) ELSE freq[x]]

RECURSIVE buildFrequencyTable(_)
buildFrequencyTable(data) ==
    IF data = <<>> THEN EmptyMap
    ELSE LET n == Len(data)
             freq == buildFrequencyTable(SubSeq(data, 1, n - 1))
             b == data[n]
         IN [x \in DOMAIN freq \cup {b} |->
                IF x = b THEN (IF b \in DOMAIN freq THEN freq[b] ELSE 0) + 1 ELSE freq[x]]

\* the leaf with MinChar left at its zero value
LeafMinCharZero(b, f) == [Char |-> b, Freq |-> f, MinChar |-> 0, Left |-> Nil, Right |-> Nil]

Leaf(b, f) == [Char |-> b, Freq |-> f, MinChar |-> b, Left |-> Nil, Right |-> Nil]

\* the loop "for b, f := range freq { heap.Push(pq, node) }" visiting the keys in order ord
RECURSIVE pushLeaves(_, _, _)
pushLeaves(freq, ord, pq) ==
    IF ord = <<>> THEN pq
    ELSE pushLeaves(freq, Tail(ord), heapPush(pq, Leaf(Head(ord), freq[Head(ord)])))

\* the merged node with Freq taken from the left child alone
MergedLeftFreq(left, right) ==
    [Char |-> 0, Freq |-> left.Freq,
     MinChar |-> IF right.MinChar < left.MinChar THEN right.MinChar ELSE left.MinChar,
     Left |-> left, Right |-> right]

\* the merged node with the second node popped as Left and the first as Right
MergedSwapped(left, right) ==
    [Char |-> 0, Freq |-> left.Freq + right.Freq,
     MinChar |-> IF right.MinChar < left.MinChar THEN right.MinChar ELSE left.MinChar,
     Left |-> right, Right |-> left]

\* the merged node without its Right child
MergedNoRight(left, right) ==
    [Char |-> 0, Freq |-> left.Freq + right.Freq,
     MinChar |-> IF right.MinChar < left.MinChar THEN right.MinChar ELSE left.MinChar,
     Left |-> left, Right |-> Nil]

\* the merged node with MinChar taken from the left child alone
MergedMinCharLeft(left, right) ==
    [Char |-> 0, Freq |-> left.Freq + right.Freq, MinChar |-> left.MinChar,
     Left |-> left, Right |-> right]

Merged(left, right) ==
    [Char |-> 0, Freq |-> left.Freq + right.Freq,
     MinChar |-> IF right.MinChar < left.MinChar THEN right.MinChar ELSE left.MinChar,
     Left |-> left, Right |-> right]

\* one iteration of the loop "for pq.Len() > 1": two pops, the merged node, a push
mergeStep(pq) ==
    LET p1 == heapPop(pq)
        p2 == heapPop(p1.pq)
        merged == Merged(p1.item, p2.item)
    IN [left |-> p1.item, right |-> p2.item, merged |-> merged,
        pq |-> heapPush(p2.pq, merged)]

\* the loop "for pq.Len() > 1"
RECURSIVE mergeLoop(_)
mergeLoop(pq) ==
    IF Len(pq) <= 1 THEN pq
    ELSE mergeLoop(mergeStep(pq).pq)

\* ord is the order in which the range statement visits the keys of freq
buildHuffmanTree(freq, ord) ==
    IF DOMAIN freq = {} THEN Nil
    ELSE heapPop(mergeLoop(pushLeaves(freq, ord, <<>>))).item

IsLeaf(node) == node.Left = Nil /\ node.Right = Nil

\* generateCodes with the right branch descending under the unchanged prefix
RECURSIVE generateCodesSamePrefix(_, _, _)
generateCodesSamePrefix(node, prefix, codeMap) ==
    IF node = Nil THEN codeMap
    ELSE IF IsLeaf(node)
    THEN [c \in DOMAIN codeMap \cup {node.Char} |-> IF c = node.Char THEN prefix ELSE codeMap[c]]
    ELSE generateCodesSamePrefix(node.Right, prefix,
                                 generateCodesSamePrefix(node.Left, Append(prefix, 0), codeMap))

\* generateCodes with "1" for the left branch and "0" for the right branch
RECURSIVE generateCodesSwapped(_, _, _)
generateCodesSwapped(node, prefix, codeMap) ==
    IF node = Nil THEN codeMap
    ELSE IF IsLeaf(node)
    THEN [c \in DOMAIN codeMap \cup {node.Char} |-> IF c = node.Char THEN prefix ELSE codeMap[c]]
    ELSE generateCodesSwapped(node.Right, Append(prefix, 0),
                              generateCodesSwapped(node.Left, Append(prefix, 1), codeMap))

RECURSIVE generateCodes(_, _, _)
generateCodes(node, prefix, codeMap) ==
    IF node = Nil THEN codeMap
    ELSE IF IsLeaf(node)
    THEN [c \in DOMAIN codeMap \cup {node.Char} |-> IF c = node.Char THEN prefix ELSE codeMap[c]]
    ELSE generateCodes(node.Right, Append(prefix, 1),
                       generateCodes(node.Left, Append(prefix, 0), codeMap))

\* bitBuf |= 1 << bitCount: the bits of a byte filled least significant first
OrBitLsbFirst(bitBuf, bitCount) ==
    LET p == Pow2(bitCount)
    IN IF (bitBuf \div p) % 2 = 1 THEN bitBuf ELSE bitBuf + p

\* bitBuf |= 1 << (7 - bitCount)
OrBit(bitBuf, bitCount) ==
    LET p == Pow2(7 - bitCount)
    IN IF (bitBuf \div p) % 2 = 1 THEN bitBuf ELSE bitBuf + p

\* one pass of the inner loop of encodeDataWithCount over the bit "bit"
putBit(st, bit) ==
    LET bitBuf == IF bit = 1 THEN OrBit(st.bitBuf, st.bitCount) ELSE st.bitBuf
        bitCount == st.bitCount + 1
    IN IF bitCount = 8
       THEN [buf |-> Append(st.buf, bitBuf), bitBuf |-> 0, bitCount |-> 0,
             totalBits |-> st.totalBits + 1]
       ELSE [buf |-> st.buf, bitBuf |-> bitBuf, bitCount |-> bitCount,
             totalBits |-> st.totalBits + 1]

RECURSIVE putCode(_, _)
putCode(st, code) ==
    IF code = <<>> THEN st ELSE putCode(putBit(st, Head(code)), Tail(code))

\* code := codeMap[b]: a missing key reads as the empty string
CodeOf(codeMap, b) == IF b \in DOMAIN codeMap THEN codeMap[b] ELSE <<>>

RECURSIVE encodeLoop(_, _, _)
encodeLoop(data, codeMap, st) ==
    IF data = <<>> THEN st
    ELSE LET next == putCode(st, CodeOf(codeMap, Head(data)))
         IN \* bitCount is below 8 after every bit; the test has the accumulator
            \* evaluated before the next byte is taken
            IF next.bitCount < 8 THEN encodeLoop(Tail(data), codeMap, next) ELSE next

encodeDataWithCount(data, codeMap) ==
    LET st == encodeLoop(data, codeMap,
                         [buf |-> <<>>, bitBuf |-> 0, bitCount |-> 0, totalBits |-> 0])
    IN [encoded |-> IF st.bitCount > 0 THEN Append(st.buf, st.bitBuf) ELSE st.buf,
        totalBits |-> st.totalBits]

\* ---------------------------------------------- counts at their full width
\* A Go int of 64 bits is held as four limbs of 16 bits, the lowest first:
\* f[1] + f[2] * 2^16 + f[3] * 2^32 + f[4] * 2^48.
WideCounts == [1..4 -> 0..MaxLimb] \ {[k \in 1..4 |-> 0]}

\* uint32(f): the low 32 bits
uint32Wide(f) == <<f[1], f[2]>>

\* binary.Write(&buf, binary.LittleEndian, uint32(f))
LE32Wide(f) ==
    LET u == uint32Wide(f)
    IN <<u[1] % 256, u[1] \div 256, u[2] % 256, u[2] \div 256>>

\* PriorityQueue.Less on two leaves with full-width Freq: the limbs are compared
\* from the highest down, then MinChar
LessWide(a, b) ==
    \/ \E k \in 1..4 : a.Freq[k] < b.Freq[k] /\ \A m \in (k + 1)..4 : a.Freq[m] = b.Freq[m]
    \/ a.Freq = b.Freq /\ a.MinChar < b.MinChar

\* the symbol of the Left child of the root buildHuffmanTree returns for a table
\* of two entries: the first node popped, the least under Less
LeftOfTwo(freq) ==
    CHOOSE x \in DOMAIN freq :
        \A y \in DOMAIN freq \ {x} : LessWide(Leaf(x, freq[x]), Leaf(y, freq[y]))

\* the entry loop of writeHeader over a table of full-width counts
RECURSIVE writeEntriesWide(_, _)
writeEntriesWide(freq, ord) ==
    IF ord = <<>> THEN <<>>
    ELSE <<Head(ord)>> \o LE32Wide(freq[Head(ord)]) \o writeEntriesWide(freq, Tail(ord))

writeHeaderWide(freq, ord) == LE16(Cardinality(DOMAIN freq)) \o writeEntriesWide(freq, ord)

\* binary.Read into a uint32 and freq[b] = int(count)
readCountWide(bs) == <<bs[1] + 256 * bs[2], bs[3] + 256 * bs[4], 0, 0>>

\* the entry loop of HuffmanDecompress over a complete header
RECURSIVE readEntriesWide(_, _, _, _)
readEntriesWide(blob, pos, n, freq) ==
    IF n = 0 THEN freq
    ELSE LET b == blob[pos + 1]
             count == readCountWide(SubSeq(blob, pos + 2, pos + 5))
         IN readEntriesWide(blob, pos + 5, n - 1,
                            [x \in DOMAIN freq \cup {b} |-> IF x = b THEN count ELSE freq[x]])

\* the entry loop of writeHeader with the frequency written most significant byte first
RECURSIVE writeEntriesBigEndian(_, _)
writeEntriesBigEndian(freq, ord) ==
    IF ord = <<>> THEN <<>>
    ELSE LET le == LE32(freq[Head(ord)])
         IN <<Head(ord), le[4], le[3], le[2], le[1]>> \o writeEntriesBigEndian(freq, Tail(ord))

\* the loop "for b, f := range freq" of writeHeader visiting the keys in order ord
RECURSIVE writeEntries(_, _)
writeEntries(freq, ord) ==
    IF ord = <<>> THEN <<>>
    ELSE <<Head(ord)>> \o LE32(freq[Head(ord)]) \o writeEntries(freq, Tail(ord))

\* writeHeader with the entry count written as a uint32
writeHeaderCount32(freq, ord) == LE32(Cardinality(DOMAIN freq)) \o writeEntries(freq, ord)

writeHeader(freq, ord) == LE16(Cardinality(DOMAIN freq)) \o writeEntries(freq, ord)

NoCompress == [err |-> FALSE, out |-> <<>>, data |-> <<>>, freqTable |-> EmptyMap,
               root |-> Nil, codeMap |-> EmptyMap, encoded |-> <<>>, totalBits |-> 0,
               head |-> <<>>]

\* HuffmanCompress without the "len(data) == 0" early return
HuffmanCompressNoEmptyCheck(data, treeOrd, headOrd) ==
    LET freqTable == buildFrequencyTable(data)
        root == buildHuffmanTree(freqTable, treeOrd)
        codeMap == generateCodes(root, <<>>, EmptyMap)
        enc == encodeDataWithCount(data, codeMap)
        head == writeHeader(freqTable, headOrd)
    IN [data |-> data, freqTable |-> freqTable, root |-> root, codeMap |-> codeMap,
        encoded |-> enc.encoded, totalBits |-> enc.totalBits, head |-> head,
        err |-> FALSE, out |-> head \o LE64(enc.totalBits) \o enc.encoded]

\* HuffmanCompress on a file whose content is data; treeOrd and headOrd are the
\* orders in which buildHuffmanTree and writeHeader range over freqTable.
\* The result holds the returned pair (out, err) and the locals of the call.
HuffmanCompress(data, treeOrd, headOrd) ==
    IF Len(data) = 0
    THEN [NoCompress EXCEPT !.err = TRUE]
    ELSE LET freqTable == buildFrequencyTable(data)
             root == buildHuffmanTree(freqTable, treeOrd)
             codeMap == generateCodes(root, <<>>, EmptyMap)
             enc == encodeDataWithCount(data, codeMap)
             head == writeHeader(freqTable, headOrd)
         IN [data |-> data, freqTable |-> freqTable, root |-> root, codeMap |-> codeMap,
             encoded |-> enc.encoded, totalBits |-> enc.totalBits, head |-> head,
             err |-> FALSE, out |-> head \o LE64(enc.totalBits) \o enc.encoded]

\* the entry loop of HuffmanDecompress: r.ReadByte, then binary.Read of a uint32;
\* pos is the number of bytes the reader has consumed
RECURSIVE readEntries(_, _, _, _)
readEntries(blob, pos, n, freq) ==
    IF n = 0 THEN [err |-> FALSE, pos |-> pos, freq |-> freq]
    ELSE IF Len(blob) - pos < 1 THEN [err |-> TRUE, pos |-> pos, freq |-> freq]
    ELSE IF Len(blob) - pos < 5 THEN [err |-> TRUE, pos |-> Len(blob), freq |-> freq]
    ELSE LET b == blob[pos + 1]
             count == LEValue(SubSeq(blob, pos + 2, pos + 5))
         IN readEntries(blob, pos + 5, n - 1,
                        [x \in DOMAIN freq \cup {b} |-> IF x = b THEN count ELSE freq[x]])

\* parseHeader with the error of the totalBits read ignored: a short field reads
\* as the bytes that are there
parseHeaderShortBitCount(blob) ==
    IF Len(blob) < 2
    THEN [err |-> TRUE, numEntries |-> 0, freq |-> EmptyMap, totalBits |-> 0, bitData |-> <<>>]
    ELSE LET numEntries == LEValue(SubSeq(blob, 1, 2))
             es == readEntries(blob, 2, numEntries, EmptyMap)
             last == IF Len(blob) < es.pos + 8 THEN Len(blob) ELSE es.pos + 8
         IN IF es.err
            THEN [err |-> TRUE, numEntries |-> numEntries, freq |-> es.freq,
                  totalBits |-> 0, bitData |-> <<>>]
            ELSE [err |-> FALSE, numEntries |-> numEntries, freq |-> es.freq,
                  totalBits |-> LEValue(SubSeq(blob, es.pos + 1, last)),
                  bitData |-> SubSeq(blob, last + 1, Len(blob))]

\* the reads of HuffmanDecompress: numEntries, the entries, totalBits, then io.ReadAll
parseHeader(blob) ==
    IF Len(blob) < 2
    THEN [err |-> TRUE, numEntries |-> 0, freq |-> EmptyMap, totalBits |-> 0, bitData |-> <<>>]
    ELSE LET numEntries == LEValue(SubSeq(blob, 1, 2))
             es == readEntries(blob, 2, numEntries, EmptyMap)
         IN IF es.err \/ Len(blob) - es.pos < 8
            THEN [err |-> TRUE, numEntries |-> numEntries, freq |-> es.freq,
                  totalBits |-> 0, bitData |-> <<>>]
            ELSE [err |-> FALSE, numEntries |-> numEntries, freq |-> es.freq,
                  totalBits |-> LEValue(SubSeq(blob, es.pos + 1, es.pos + 8)),
                  bitData |-> SubSeq(blob, es.pos + 9, Len(blob))]

\* ------------------------------------------------------- the visualizer page
HexDigits == <<"0", "1", "2", "3", "4", "5", "6", "7", "8", "9", "a", "b", "c", "d", "e", "f">>

\* `0x${byteVal.toString(16).padStart(2, "0")}`, as the sequence of its characters
HexKey(b) == <<"0", "x", HexDigits[(b \div 16) + 1], HexDigits[(b % 16) + 1]>>

\* freq[key] = count on the object freq, held as the sequence of its entries in
\* the order of Object.entries: a key already there keeps its place
setKey(freq, key, count) ==
    IF \E i \in DOMAIN freq : freq[i].char = key
    THEN [i \in DOMAIN freq |-> IF freq[i].char = key THEN [char |-> key, freq |-> count]
                                ELSE freq[i]]
    ELSE Append(freq, [char |-> key, freq |-> count])

\* the entry loop of parseCompressedHeader; a DataView read beyond the buffer
\* throws a RangeError
RECURSIVE vizReadEntries(_, _, _, _)
vizReadEntries(buffer, offset, n, freq) ==
    IF n = 0 THEN [err |-> FALSE, freq |-> freq]
    ELSE IF Len(buffer) - offset < 5 THEN [err |-> TRUE, freq |-> <<>>]
    ELSE vizReadEntries(buffer, offset + 5, n - 1,
                        setKey(freq, HexKey(buffer[offset + 1]),
                               LEValue(SubSeq(buffer, offset + 2, offset + 5))))

parseCompressedHeader(buffer) ==
    IF Len(buffer) < 2 THEN [err |-> TRUE, freq |-> <<>>]
    ELSE vizReadEntries(buffer, 2, LEValue(SubSeq(buffer, 1, 2)), <<>>)

\* nodes.sort((a, b) => a.freq - b.freq): a stable sort on freq alone
RECURSIVE vizInsert(_, _)
vizInsert(sorted, x) ==
    IF sorted = <<>> THEN <<x>>
    ELSE IF sorted[Len(sorted)].freq <= x.freq THEN Append(sorted, x)
    ELSE Append(vizInsert(SubSeq(sorted, 1, Len(sorted) - 1), x), sorted[Len(sorted)])

RECURSIVE vizSortFrom(_, _)
vizSortFrom(nodes, sorted) ==
    IF nodes = <<>> THEN sorted ELSE vizSortFrom(Tail(nodes), vizInsert(sorted, Head(nodes)))

vizSort(nodes) == vizSortFrom(nodes, <<>>)

\* the loop "while (nodes.length > 1)" of the page's buildHuffmanTree
RECURSIVE vizMergeLoop(_)
vizMergeLoop(nodes) ==
    IF Len(nodes) <= 1 THEN nodes
    ELSE LET sorted == vizSort(nodes)
             left == sorted[1]
             right == sorted[2]
         IN vizMergeLoop(Append(SubSeq(sorted, 3, Len(sorted)),
                                [char |-> <<>>, freq |-> left.freq + right.freq,
                                 left |-> left, right |-> right]))

\* the page's buildHuffmanTree(freq); a missing left, right or char reads as Nil or <<>>
vizBuildHuffmanTree(freq) ==
    LET nodes == [i \in DOMAIN freq |-> [char |-> freq[i].char, freq |-> freq[i].freq,
                                         left |-> Nil, right |-> Nil]]
    IN IF nodes = <<>> THEN Nil ELSE vizMergeLoop(nodes)[1]

Panicked == [status |-> "panic", out |-> <<>>, node |-> Nil, bitsRead |-> 0]

\* one pass of the inner decode loop: follow the bit of weight 2^(7-j) of byteVal
\* the bit step reading bit j of byteVal from the least significant end
\* ("byteVal>>j" for "byteVal>>(7-j)")
decodeBitLsbFirst(root, byteVal, j, st) ==
    LET next == IF (byteVal \div Pow2(j)) % 2 = 0 THEN st.node.Left ELSE st.node.Right
    IN IF next = Nil THEN Panicked
       ELSE IF IsLeaf(next)
       THEN [status |-> "ok", out |-> Append(st.out, next.Char), node |-> root,
             bitsRead |-> st.bitsRead + 1]
       ELSE [status |-> "ok", out |-> st.out, node |-> next, bitsRead |-> st.bitsRead + 1]

\* the bit step without "node = root" after a symbol is emitted
decodeBitNoReset(root, byteVal, j, st) ==
    LET next == IF (byteVal \div Pow2(7 - j)) % 2 = 0 THEN st.node.Left ELSE st.node.Right
    IN IF next = Nil THEN Panicked
       ELSE IF IsLeaf(next)
       THEN [status |-> "ok", out |-> Append(st.out, next.Char), node |-> next,
             bitsRead |-> st.bitsRead + 1]
       ELSE [status |-> "ok", out |-> st.out, node |-> next, bitsRead |-> st.bitsRead + 1]

decodeBit(root, byteVal, j, st) ==
    LET next == IF (byteVal \div Pow2(7 - j)) % 2 = 0 THEN st.node.Left ELSE st.node.Right
    IN IF next = Nil THEN Panicked
       ELSE IF IsLeaf(next)
       THEN [status |-> "ok", out |-> Append(st.out, next.Char), node |-> root,
             bitsRead |-> st.bitsRead + 1]
       ELSE [status |-> "ok", out |-> st.out, node |-> next, bitsRead |-> st.bitsRead + 1]

\* the inner decode loop running to the end of every byte
\* ("j < 8" without "bitsRead < totalBits")
RECURSIVE decodeBitsWholeByte(_, _, _, _, _)
decodeBitsWholeByte(root, byteVal, totalBits, j, st) ==
    IF st.status = "panic" \/ j >= 8 THEN st
    ELSE decodeBitsWholeByte(root, byteVal, totalBits, j + 1, decodeBit(root, byteVal, j, st))

\* the inner decode loop "for j := 0; j < 8 && bitsRead < totalBits; j++" over
\* byteVal. A run-time panic ends the call without a result.
RECURSIVE decodeBits(_, _, _, _, _)
decodeBits(root, byteVal, totalBits, j, st) ==
    IF st.status = "panic" \/ j >= 8 \/ st.bitsRead >= totalBits THEN st
    ELSE decodeBits(root, byteVal, totalBits, j + 1, decodeBit(root, byteVal, j, st))

\* the outer decode loop "for i := 0; bitsRead < totalBits; i++"; st holds out, the
\* traverse pointer node and bitsRead
RECURSIVE decodeLoop(_, _, _, _, _)
decodeLoop(root, bitData, totalBits, i, st) ==
    IF st.status = "panic" \/ st.bitsRead >= totalBits THEN st
    ELSE IF i >= Len(bitData) THEN Panicked
    ELSE decodeLoop(root, bitData, totalBits, i + 1,
                    decodeBits(root, bitData[i + 1], totalBits, 0, st))

\* lines 203-205: var out []byte; node := root; bitsRead := uint64(0)
decodeStart(root) == [status |-> "ok", out |-> <<>>, node |-> root, bitsRead |-> 0]

NoDecompress == [status |-> "none", out |-> <<>>, blob |-> <<>>, freq |-> EmptyMap,
                 root |-> Nil, totalBits |-> 0, bitData |-> <<>>, node |-> Nil]

\* HuffmanDecompress with "root == nil" answered by (nil, nil)
HuffmanDecompressNilRootOk(blob, ord) ==
    LET h == parseHeader(blob)
    IN IF h.err
       THEN [NoDecompress EXCEPT !.status = "error", !.blob = blob, !.freq = h.freq]
       ELSE LET root == buildHuffmanTree(h.freq, ord)
            IN IF root = Nil
               THEN [NoDecompress EXCEPT !.status = "ok", !.blob = blob, !.freq = h.freq,
                                         !.totalBits = h.totalBits]
               ELSE LET r == decodeLoop(root, h.bitData, h.totalBits, 0, decodeStart(root))
                    IN [status |-> r.status, out |-> r.out, blob |-> blob, freq |-> h.freq,
                        root |-> root, totalBits |-> h.totalBits, bitData |-> h.bitData,
                        node |-> r.node]

\* HuffmanDecompress(blob); ord is the order in which buildHuffmanTree ranges over
\* freq. status is "ok" (out, nil), "error" (nil, err) or "panic".
HuffmanDecompress(blob, ord) ==
    LET h == parseHeader(blob)
    IN IF h.err
       THEN [NoDecompress EXCEPT !.status = "error", !.blob = blob, !.freq = h.freq]
       ELSE LET root == buildHuffmanTree(h.freq, ord)
            IN IF root = Nil
               THEN [NoDecompress EXCEPT !.status = "error", !.blob = blob, !.freq = h.freq,
                                         !.totalBits = h.totalBits]
               ELSE LET r == decodeLoop(root, h.bitData, h.totalBits, 0, decodeStart(root))
                    IN [status |-> r.status, out |-> r.out, blob |-> blob, freq |-> h.freq,
                        root |-> root, totalBits |-> h.totalBits, bitData |-> h.bitData,
                        node |-> r.node]

\* ---------------------------------------------------------------- state machine
VARIABLES
    op,       \* the last call made: "none", "compress", "recompress", "roundtrip",
              \* "decompress", "tampered", "repadded", "visualize"
    comp,     \* result and locals of the last HuffmanCompress call
    comp2,    \* result and locals of a second HuffmanCompress call on the same input
    decomp,   \* result and locals of the last HuffmanDecompress call
    decomp2,  \* result and locals of a HuffmanDecompress call on a variant of decomp.blob
    tree,     \* a buildHuffmanTree call in progress, one loop iteration per step
    srv,      \* the HTTP server: the temp directory and the CompressFile requests
    enc,      \* an encodeDataWithCount call on a code table of the caller's choice
    dec,      \* the decode loop of a HuffmanDecompress call in progress, a loop
              \* iteration per step
    viz,      \* the visualizer page: the tree drawn for an uploaded compressed file
    hdr       \* a header written from, and read back into, a table of 64-bit counts

vars == <<op, comp, comp2, decomp, decomp2, tree, srv, enc, dec, viz, hdr>>

NoMerge == [before |-> <<>>, left |-> Nil, right |-> Nil, merged |-> Nil]

\* tree.pc is "idle", "push" (in the range loop), "merge" (in the merge loop) or
\* "done"; ord holds the keys the range loop has still to visit, last the queue
\* before the last merge iteration with the nodes it popped and pushed
NoTree == [pc |-> "idle", freq |-> EmptyMap, ord0 |-> <<>>, ord |-> <<>>, pq |-> <<>>,
           merges |-> 0, last |-> NoMerge, root |-> Nil]

\* enc.pc is "idle" or "done"
NoEncode == [pc |-> "idle", data |-> <<>>, codeMap |-> EmptyMap, encoded |-> <<>>,
             totalBits |-> 0]

\* dec.pc is "idle", "error" (the "invalid tree" return), "outer" (at the test of
\* the outer loop), "inner" (at the test of the inner loop), "done" (returned
\* out) or "panic"; i, j and byteVal are the loop variables and st holds out,
\* node and bitsRead
NoDecode == [pc |-> "idle", freq |-> EmptyMap, root |-> Nil, bitData |-> <<>>,
             totalBits |-> 0, i |-> 0, j |-> 0, byteVal |-> 0,
             st |-> [status |-> "ok", out |-> <<>>, node |-> Nil, bitsRead |-> 0]]

\* viz.status is "none", "drawn" or "error"; root is the tree the page has built
\* and decRoot the tree HuffmanDecompress builds from the same header
NoViz == [status |-> "none", root |-> Nil, decRoot |-> Nil]

\* hdr.pc is "idle" or "done"; freq is the table handed to writeHeader, head the
\* bytes written and read the table HuffmanDecompress reads from them
NoHeader == [pc |-> "idle", freq |-> EmptyMap, head |-> <<>>, read |-> EmptyMap]

Requests == 1..NumRequests

\* a request of CompressFile: pc is "idle" (not received), "create" (before
\* os.Create), "copy" (before io.Copy), "compress" (before HuffmanCompress) or
\* "done"; name and upload are the form file, resp the outcome of the compression
NoRequest == [pc |-> "idle", name |-> "", upload |-> <<>>, resp |-> [err |-> FALSE, out |-> <<>>]]

\* files maps the paths that exist in os.TempDir() to their content
NoServer == [files |-> [n \in {} |-> <<>>], reqs |-> [r \in Requests |-> NoRequest]]

Init ==
    /\ op = "none"
    /\ comp = NoCompress
    /\ comp2 = NoCompress
    /\ decomp = NoDecompress
    /\ decomp2 = NoDecompress
    /\ tree = NoTree
    /\ srv = NoServer
    /\ enc = NoEncode
    /\ dec = NoDecode
    /\ viz = NoViz
    /\ hdr = NoHeader

\* a caller compresses a file with content data. The codec keeps no state between
\* calls (every call builds its own table, tree and buffers), so each behaviour
\* follows one input from a fresh start.
Compress ==
    /\ op = "none"
    /\ \E data \in SeqsUpTo(Symbols, MaxLen) :
      \E treeOrd, headOrd \in Perms(Range(data)) :
        /\ comp' = HuffmanCompress(data, treeOrd, headOrd)
        /\ comp2' = NoCompress
        /\ decomp' = NoDecompress
        /\ op' = "compress"
        /\ UNCHANGED <<decomp2, tree, srv, enc, dec, viz, hdr>>

\* the caller compresses the same content again
Recompress ==
    /\ op = "compress"
    /\ \E treeOrd, headOrd \in Perms(Range(comp.data)) :
         comp2' = HuffmanCompress(comp.data, treeOrd, headOrd)
    /\ op' = "recompress"
    /\ UNCHANGED <<comp, decomp, decomp2, tree, srv, enc, dec, viz, hdr>>

\* the caller decompresses the blob the last compression returned
RoundTrip ==
    /\ op = "compress"
    /\ ~comp.err
    /\ \E ord \in Perms(DOMAIN parseHeader(comp.out).freq) :
         decomp' = HuffmanDecompress(comp.out, ord)
    /\ op' = "roundtrip"
    /\ UNCHANGED <<comp, comp2, decomp2, tree, srv, enc, dec, viz, hdr>>

\* the caller decompresses the blob the last compression returned with its
\* totalBitCount field overwritten by tb, at most the number of bits packed
Tamper ==
    /\ op = "compress"
    /\ ~comp.err
    /\ \E tb \in 0..(8 * Len(comp.encoded)) :
         LET blob == comp.head \o LE64(tb) \o comp.encoded
         IN \E ord \in Perms(DOMAIN parseHeader(blob).freq) :
              decomp' = HuffmanDecompress(blob, ord)
    /\ op' = "tampered"
    /\ UNCHANGED <<comp, comp2, decomp2, tree, srv, enc, dec, viz, hdr>>

\* a blob with the entries es, the bit count tb and the packed bytes bits
MakeBlob(es, tb, bits) ==
    LET RECURSIVE ents(_)
        ents(s) == IF s = <<>> THEN <<>> ELSE <<Head(s)[1]>> \o LE32(Head(s)[2]) \o ents(Tail(s))
    IN LE16(Len(es)) \o ents(es) \o LE64(tb) \o bits

\* a caller decompresses a blob of its own making: a header of the entries es and
\* the bit count tb followed by the packed bytes bits, or such a header cut
\* after k bytes (a blob cut inside its packed section is a shorter bits)
Decompress ==
    /\ op = "none"
    /\ \E es \in SeqsUpTo(Symbols \X (0..MaxCount), MaxEntries), tb \in 0..MaxBits,
       bits \in SeqsUpTo(DataBytes, MaxData) :
      \E k \in (IF bits = <<>> THEN 0..Len(MakeBlob(es, tb, bits))
                ELSE {Len(MakeBlob(es, tb, bits))}) :
        LET blob == SubSeq(MakeBlob(es, tb, bits), 1, k)
        IN \E ord \in Perms(DOMAIN parseHeader(blob).freq) :
             /\ decomp' = HuffmanDecompress(blob, ord)
             /\ comp' = NoCompress
             /\ comp2' = NoCompress
             /\ op' = "decompress"
             /\ UNCHANGED <<decomp2, tree, srv, enc, dec, viz, hdr>>

\* bitData with the bit of index p (0 is the top bit of the first byte) inverted
FlipBit(bitData, p) ==
    LET w == Pow2(7 - (p % 8))
        b == bitData[(p \div 8) + 1]
    IN [bitData EXCEPT ![(p \div 8) + 1] = IF (b \div w) % 2 = 1 THEN b - w ELSE b + w]

\* the caller decompresses the last blob again with one bit of the packed section
\* at a position at or beyond totalBitCount inverted
Repad ==
    /\ op \in {"roundtrip", "decompress", "tampered"}
    /\ ~parseHeader(decomp.blob).err
    /\ LET h == parseHeader(decomp.blob)
           hlen == Len(decomp.blob) - Len(h.bitData)
       IN \E p \in h.totalBits..(8 * Len(h.bitData) - 1) :
            LET blob == SubSeq(decomp.blob, 1, hlen) \o FlipBit(h.bitData, p)
            IN \E ord \in Perms(DOMAIN h.freq) :
                 decomp2' = HuffmanDecompress(blob, ord)
    /\ op' = "repadded"
    /\ UNCHANGED <<comp, comp2, decomp, tree, srv, enc, dec, viz, hdr>>

\* the user uploads the compressed file to the "Decompression Tree" tab: the page
\* parses the header and builds its tree; HuffmanDecompress builds its own from
\* the same bytes
Visualize ==
    /\ op = "compress"
    /\ ~comp.err
    /\ LET h == parseCompressedHeader(comp.out)
       IN \E ord \in Perms(DOMAIN parseHeader(comp.out).freq) :
            viz' = IF h.err THEN [NoViz EXCEPT !.status = "error"]
                   ELSE [status |-> "drawn", root |-> vizBuildHuffmanTree(h.freq),
                         decRoot |-> buildHuffmanTree(parseHeader(comp.out).freq, ord)]
    /\ op' = "visualize"
    /\ UNCHANGED <<comp, comp2, decomp, decomp2, tree, srv, enc, dec, hdr>>

Next == Compress \/ Recompress \/ RoundTrip \/ Tamper \/ Decompress \/ Repad \/ Visualize

Spec == Init /\ [][Next]_vars

\* the content of the test case "Simple ASCII": "aaaaabbbbcccdde"
SimpleASCII == <<97, 97, 97, 97, 97, 98, 98, 98, 98, 99, 99, 99, 100, 100, 101>>

\* the test compresses the file of the "Simple ASCII" case
CompressSimpleASCII ==
    /\ op = "none"
    /\ \E treeOrd, headOrd \in Perms(Range(SimpleASCII)) :
         comp' = HuffmanCompress(SimpleASCII, treeOrd, headOrd)
    /\ op' = "compress"
    /\ UNCHANGED <<comp2, decomp, decomp2, tree, srv, enc, dec, viz, hdr>>

NextTest == CompressSimpleASCII \/ RoundTrip

\* the run of the test case "Simple ASCII": compress, then decompress
SpecTest == Init /\ [][NextTest]_vars

\* the frequency tables over TreeSymbols with counts up to MaxFreq (a table parsed
\* from a header may hold the count 0)
FreqTables == UNION {[S -> 0..MaxFreq] : S \in SUBSET TreeSymbols}

\* buildHuffmanTree(freq) is called: the early return on an empty table, else the
\* empty queue and the order ord of the range loop
TreeStart ==
    /\ tree.pc = "idle"
    /\ \E freq \in FreqTables :
         \E ord \in Perms(DOMAIN freq) :
           tree' = [NoTree EXCEPT !.pc = IF DOMAIN freq = {} THEN "done" ELSE "push",
                                  !.freq = freq, !.ord0 = ord, !.ord = ord]
    /\ UNCHANGED <<op, comp, comp2, decomp, decomp2, srv, enc, dec, viz, hdr>>

\* one iteration of the range loop: a leaf is pushed
TreePush ==
    /\ tree.pc = "push"
    /\ LET b == Head(tree.ord)
       IN tree' = [tree EXCEPT !.pq = heapPush(tree.pq, Leaf(b, tree.freq[b])),
                               !.ord = Tail(tree.ord),
                               !.pc = IF Tail(tree.ord) = <<>> THEN "merge" ELSE "push"]
    /\ UNCHANGED <<op, comp, comp2, decomp, decomp2, srv, enc, dec, viz, hdr>>

\* one iteration of the merge loop
TreeMerge ==
    /\ tree.pc = "merge"
    /\ Len(tree.pq) > 1
    /\ LET m == mergeStep(tree.pq)
       IN tree' = [tree EXCEPT !.pq = m.pq, !.merges = tree.merges + 1,
                               !.last = [before |-> tree.pq, left |-> m.left,
                                         right |-> m.right, merged |-> m.merged]]
    /\ UNCHANGED <<op, comp, comp2, decomp, decomp2, srv, enc, dec, viz, hdr>>

\* the merge loop ends: return heap.Pop(pq)
TreeReturn ==
    /\ tree.pc = "merge"
    /\ Len(tree.pq) <= 1
    /\ LET p == heapPop(tree.pq)
       IN tree' = [tree EXCEPT !.pc = "done", !.root = p.item, !.pq = p.pq]
    /\ UNCHANGED <<op, comp, comp2, decomp, decomp2, srv, enc, dec, viz, hdr>>

NextTree == TreeStart \/ TreePush \/ TreeMerge \/ TreeReturn

\* one call of buildHuffmanTree, a loop iteration per step
SpecTree == Init /\ [][NextTree]_vars

\* the steps return the tree the call returns
TreeStepsAgree ==
    tree.pc = "done" => tree.root = buildHuffmanTree(tree.freq, tree.ord0)

\* c.FormFile("file") and file.Open(): request r arrives with its upload
CFReceive(r) ==
    /\ srv.reqs[r].pc = "idle"
    /\ \E name \in Filenames, upload \in UploadContents :
         srv' = [srv EXCEPT !.reqs[r] = [NoRequest EXCEPT !.pc = "create", !.name = name,
                                                           !.upload = upload]]
    /\ UNCHANGED <<op, comp, comp2, decomp, decomp2, tree, enc, dec, viz, hdr>>

\* os.Create(filepath.Join(os.TempDir(), file.Filename)): the file is created, or
\* truncated when it exists
CFCreate(r) ==
    /\ srv.reqs[r].pc = "create"
    /\ LET name == srv.reqs[r].name
       IN srv' = [srv EXCEPT !.reqs[r].pc = "copy",
                             !.files = [n \in DOMAIN srv.files \cup {name} |->
                                           IF n = name THEN <<>> ELSE srv.files[n]]]
    /\ UNCHANGED <<op, comp, comp2, decomp, decomp2, tree, enc, dec, viz, hdr>>

\* io.Copy(outFile, src): the upload is written through the request's own handle,
\* from offset 0, over whatever the file holds
CFCopy(r) ==
    /\ srv.reqs[r].pc = "copy"
    /\ LET name == srv.reqs[r].name
           upload == srv.reqs[r].upload
           old == srv.files[name]
       IN srv' = [srv EXCEPT !.reqs[r].pc = "compress",
                             !.files[name] = upload \o SubSeq(old, Len(upload) + 1, Len(old))]
    /\ UNCHANGED <<op, comp, comp2, decomp, decomp2, tree, enc, dec, viz, hdr>>

\* huffman.HuffmanCompress(tempInputPath) reads the file as it is now; an error is
\* answered with status 500, else the blob is written to the response
CFCompress(r) ==
    /\ srv.reqs[r].pc = "compress"
    /\ LET data == srv.files[srv.reqs[r].name]
       IN \E treeOrd, headOrd \in Perms(Range(data)) :
            LET c == HuffmanCompress(data, treeOrd, headOrd)
            IN srv' = [srv EXCEPT !.reqs[r].pc = "done",
                                  !.reqs[r].resp = [err |-> c.err, out |-> c.out]]
    /\ UNCHANGED <<op, comp, comp2, decomp, decomp2, tree, enc, dec, viz, hdr>>

NextCF == \E r \in Requests : CFReceive(r) \/ CFCreate(r) \/ CFCopy(r) \/ CFCompress(r)

\* the server handling NumRequests CompressFile requests, each in its own goroutine
SpecCF == Init /\ [][NextCF]_vars

\* the code tables over EncSymbols with codes of at most MaxCode bits (the
\* function takes any map, the empty string included)
CodeTables == [EncSymbols -> SeqsUpTo({0, 1}, MaxCode)]

\* a caller hands a content and a code table to encodeDataWithCount
EncodeData ==
    /\ enc.pc = "idle"
    /\ \E data \in SeqsUpTo(EncSymbols, MaxLen), codeMap \in CodeTables :
         LET r == encodeDataWithCount(data, codeMap)
         IN enc' = [pc |-> "done", data |-> data, codeMap |-> codeMap,
                    encoded |-> r.encoded, totalBits |-> r.totalBits]
    /\ UNCHANGED <<op, comp, comp2, decomp, decomp2, tree, srv, dec, viz, hdr>>

NextEnc == EncodeData

\* one call of encodeDataWithCount
SpecEnc == Init /\ [][NextEnc]_vars

\* the frequency tables a parsed header can hold
DecTables == UNION {[S -> 0..MaxCount] : S \in SUBSET Symbols}

\* HuffmanDecompress has parsed the header into freq and totalBits and read the
\* packed bytes bitData: the tree is built, a nil root is the "invalid tree"
\* error, else out, node and bitsRead are initialised and the outer loop starts
DecStart ==
    /\ dec.pc = "idle"
    /\ \E freq \in DecTables, totalBits \in 0..MaxBits,
          bitData \in SeqsUpTo(DecBytes, MaxData + 1) :
         \E ord \in Perms(DOMAIN freq) :
           LET root == buildHuffmanTree(freq, ord)
           IN dec' = [NoDecode EXCEPT !.pc = IF root = Nil THEN "error" ELSE "outer",
                                      !.freq = freq, !.root = root, !.bitData = bitData,
                                      !.totalBits = totalBits, !.st = decodeStart(root)]
    /\ UNCHANGED <<op, comp, comp2, decomp, decomp2, tree, srv, enc, viz, hdr>>

\* the test of the outer loop "for i := 0; bitsRead < totalBits; i++": return
\* out, or byteVal := bitData[i] (a panic when i is out of range) and j := 0
DecOuter ==
    /\ dec.pc = "outer"
    /\ dec' = IF dec.st.bitsRead >= dec.totalBits THEN [dec EXCEPT !.pc = "done"]
              ELSE IF dec.i >= Len(dec.bitData) THEN [dec EXCEPT !.pc = "panic", !.st = Panicked]
              ELSE [dec EXCEPT !.pc = "inner", !.byteVal = dec.bitData[dec.i + 1], !.j = 0]
    /\ UNCHANGED <<op, comp, comp2, decomp, decomp2, tree, srv, enc, viz, hdr>>

\* the test of the inner loop "for j := 0; j < 8 && bitsRead < totalBits; j++"
\* and one iteration of its body, or its exit to the i++ of the outer loop
DecInner ==
    /\ dec.pc = "inner"
    /\ dec' = IF dec.j < 8 /\ dec.st.bitsRead < dec.totalBits
              THEN LET st == decodeBit(dec.root, dec.byteVal, dec.j, dec.st)
                   IN [dec EXCEPT !.st = st, !.j = dec.j + 1,
                                  !.pc = IF st.status = "panic" THEN "panic" ELSE "inner"]
              ELSE [dec EXCEPT !.pc = "outer", !.i = dec.i + 1]
    /\ UNCHANGED <<op, comp, comp2, decomp, decomp2, tree, srv, enc, viz, hdr>>

NextDec == DecStart \/ DecOuter \/ DecInner

\* the decode loop of one HuffmanDecompress call, a loop iteration per step
SpecDec == Init /\ [][NextDec]_vars

\* the steps end as the call ends
DecStepsAgree ==
    dec.pc \in {"done", "panic"}
        => dec.st = decodeLoop(dec.root, dec.bitData, dec.totalBits, 0, decodeStart(dec.root))

\* the tables buildFrequencyTable returns for files of any size: a count is exact
\* whatever its size, an int of 64 bits
WideTables == UNION {[S -> WideCounts] : S \in SUBSET EncSymbols}

\* HuffmanCompress writes the header of a table of full-width counts and
\* HuffmanDecompress reads the table back from it
WriteReadHeader ==
    /\ hdr.pc = "idle"
    /\ \E freq \in WideTables :
         \E ord \in Perms(DOMAIN freq) :
           LET head == writeHeaderWide(freq, ord)
           IN hdr' = [pc |-> "done", freq |-> freq, head |-> head,
                      read |-> readEntriesWide(head, 2, LEValue(SubSeq(head, 1, 2)), EmptyMap)]
    /\ UNCHANGED <<op, comp, comp2, decomp, decomp2, tree, srv, enc, dec, viz>>

NextHdr == WriteReadHeader

\* the header of one compression, written and read back
SpecHdr == Init /\ [][NextHdr]_vars

TypeOK ==
    /\ op \in {"none", "compress", "recompress", "roundtrip", "decompress", "tampered",
              "repadded", "visualize"}
    /\ decomp.status \in {"none", "ok", "error", "panic"}
    /\ comp.err \in BOOLEAN

\* ---------------------------------------------------------------- properties
Compressed == op \in {"compress", "recompress", "roundtrip", "tampered"}

Decompressed == op \in {"roundtrip", "decompress", "tampered", "repadded"}

IsPrefix(a, b) == Len(a) <= Len(b) /\ SubSeq(b, 1, Len(a)) = a

PrefixFree(cm) == \A x, y \in DOMAIN cm : x # y => ~IsPrefix(cm[x], cm[y])

\* the entry count a blob of at least two bytes declares
DeclaredEntries(blob) == LEValue(SubSeq(blob, 1, 2))

\* C1: decompressing the blob compressed from any non-empty input returns no
\* error and exactly the input bytes.
C1_RoundTrip ==
    (op = "roundtrip" /\ Len(comp.data) > 0)
        => (decomp.status = "ok" /\ decomp.out = comp.data)

\* C2: compressing a zero-length input returns an error and a nil slice, and
\* builds no frequency table, tree or header.
C2_EmptyRejected ==
    (Compressed /\ comp.data = <<>>)
        => /\ comp.err
           /\ comp.out = <<>>
           /\ comp.freqTable = EmptyMap
           /\ comp.root = Nil
           /\ comp.head = <<>>

C2_Witness == op = "compress" /\ comp.data = <<>> /\ comp.err

\* C3: two compressions of the same input return byte-identical blobs, whatever
\* the order in which the frequency map is iterated.
C3_Deterministic ==
    op = "recompress" => (comp2.err = comp.err /\ comp2.out = comp.out)

\* C4 as stated: a blob that declares e entries and is shorter than 2 + 6e + 8
\* bytes is answered with an error and no output.
C4_Truncated6 ==
    (Decompressed /\ (Len(decomp.blob) < 2
                      \/ Len(decomp.blob) < 2 + 6 * DeclaredEntries(decomp.blob) + 8))
        => (decomp.status = "error" /\ decomp.out = <<>>)

\* C4 amended: an entry takes 5 bytes (1 symbol byte and a uint32), so a blob that
\* declares e entries and is shorter than 2 + 5e + 8 bytes is answered with an
\* error and no output.
C4_Truncated5 ==
    (Decompressed /\ (Len(decomp.blob) < 2
                      \/ Len(decomp.blob) < 2 + 5 * DeclaredEntries(decomp.blob) + 8))
        => (decomp.status = "error" /\ decomp.out = <<>>)

\* a blob cut inside its totalBitCount field, after two complete entries
C4_Witness ==
    /\ op = "decompress"
    /\ Len(decomp.blob) >= 2
    /\ DeclaredEntries(decomp.blob) = 2
    /\ Len(decomp.blob) > 2 + 5 * 2
    /\ Len(decomp.blob) < 2 + 5 * 2 + 8
    /\ decomp.status = "error"

\* C5: a blob whose totalBitCount exceeds 8 times the number of packed bytes is
\* answered with an error value.
C5_ExhaustionIsError ==
    (Decompressed /\ ~parseHeader(decomp.blob).err
       /\ parseHeader(decomp.blob).totalBits > 8 * Len(parseHeader(decomp.blob).bitData))
        => decomp.status = "error"

\* C6: every call of HuffmanDecompress returns output bytes or an error; it never
\* indexes the packed data out of range nor follows a nil child.
C6_DecompressTotal ==
    Decompressed => decomp.status \in {"ok", "error"}

\* C7: in the code table generated from the tree of a non-empty frequency table
\* (the encoder's, or the one a decoder rebuilds from a header) no code is a
\* prefix of, or equal to, the code of another symbol.
C7_PrefixFree ==
    /\ (Compressed /\ ~comp.err) => PrefixFree(comp.codeMap)
    /\ (Decompressed /\ decomp.root # Nil)
          => PrefixFree(generateCodes(decomp.root, <<>>, EmptyMap))

C7_Witness ==
    /\ op = "compress"
    /\ Cardinality(DOMAIN comp.codeMap) = 3
    /\ \E x, y \in DOMAIN comp.codeMap : Len(comp.codeMap[x]) < Len(comp.codeMap[y])

\* C8: every code of the generated table has at least one bit, there is one code
\* per symbol of the table, and totalBitCount is at least the input length.
C8_CodesNonEmpty ==
    (Compressed /\ ~comp.err)
        => /\ DOMAIN comp.codeMap = DOMAIN comp.freqTable
           /\ \A x \in DOMAIN comp.codeMap : Len(comp.codeMap[x]) >= 1
           /\ comp.totalBits >= Len(comp.data)

\* C9: an input of n >= 1 copies of one byte compresses to a header of exactly
\* one entry and decompresses to all n bytes.
C9_SingleSymbol ==
    (op = "roundtrip" /\ Cardinality(Range(comp.data)) = 1)
        => /\ DeclaredEntries(comp.out) = 1
           /\ decomp.status = "ok"
           /\ Len(decomp.out) = Len(comp.data)
           /\ decomp.out = comp.data

\* C10: the frequency map HuffmanDecompress rebuilds from the header of a blob
\* HuffmanCompress produced has the symbols and counts of the encoder's table.
C10_HeaderFidelity ==
    /\ op = "roundtrip" => decomp.freq = comp.freqTable
    /\ hdr.pc = "done" => hdr.read = hdr.freq

\* C11: the decoder reads only the first totalBitCount bits of the packed section:
\* inverting a bit at a position at or beyond totalBitCount changes neither the
\* outcome nor the output of HuffmanDecompress, and adds no symbol.
C11_PaddingIgnored ==
    op = "repadded"
        => /\ decomp2.status = decomp.status
           /\ decomp2.out = decomp.out
           /\ Len(decomp2.out) = Len(decomp.out)

\* a compressed blob whose last packed byte has padding, decoded with a padding bit set
C11_Witness ==
    /\ op = "repadded"
    /\ comp.totalBits % 8 # 0
    /\ decomp.status = "ok"
    /\ decomp.out = comp.data
    /\ decomp2.blob # decomp.blob
    /\ decomp2.out = decomp.out

\* C12: when the totalBitCount bits are consumed with the traverse pointer at an
\* internal node (an incomplete code), HuffmanDecompress returns an error instead
\* of the symbols decoded so far.
C12_MidTreeIsError ==
    (Decompressed /\ decomp.status # "panic" /\ decomp.root # Nil
       /\ decomp.node # decomp.root)
        => decomp.status = "error"

\* C13: a blob whose header declares entryCount = 0 yields an error and no output,
\* whatever totalBitCount and trailing bytes it carries.
C13_EmptyTableRejected ==
    (Decompressed /\ Len(decomp.blob) >= 2 /\ DeclaredEntries(decomp.blob) = 0)
        => (decomp.status = "error" /\ decomp.out = <<>>)

\* a complete blob of zero entries with a positive bit count and packed bytes
C13_Witness ==
    /\ op = "decompress"
    /\ Len(decomp.blob) > 2 + 8
    /\ DeclaredEntries(decomp.blob) = 0
    /\ parseHeader(decomp.blob).totalBits > 0
    /\ decomp.status = "error"

\* C14: the tree is a function of the table's contents alone: every order of
\* iterating the table and pushing its entries onto the heap gives the same tree
\* and the same codes, in two compressions of one input, in the decoder of a
\* compressed blob, and for every table a decoder parses.
C14_TreeUnique ==
    /\ op = "recompress"
          => (comp2.root = comp.root /\ comp2.codeMap = comp.codeMap)
    /\ op = "roundtrip" => decomp.root = comp.root
    /\ (Compressed /\ ~comp.err)
          => \A ord \in Perms(DOMAIN comp.freqTable) :
                buildHuffmanTree(comp.freqTable, ord) = comp.root
    /\ (op = "decompress" /\ decomp.root # Nil)
          => \A ord \in Perms(DOMAIN decomp.freq) :
                buildHuffmanTree(decomp.freq, ord) = decomp.root

\* two compressions of an input of three symbols, two of them with equal counts
C14_Witness ==
    /\ op = "recompress"
    /\ Cardinality(DOMAIN comp.freqTable) = 3
    /\ \E x, y \in DOMAIN comp.freqTable : x # y /\ comp.freqTable[x] = comp.freqTable[y]
    /\ comp2.root = comp.root
    /\ comp2.head # comp.head

CeilDiv8(n) == (n + 7) \div 8

\* the container layout of the blob c.out with entries of entrySize bytes:
\* entryCount, the entries (each symbol once, with its count), totalBitCount,
\* then ceil(totalBitCount / 8) packed bytes
LayoutWith(c, entrySize) ==
    LET e == DeclaredEntries(c.out)
        at(i) == 2 + entrySize * (i - 1)
        tbAt == 2 + entrySize * e
    IN /\ Len(c.out) >= 2
       /\ e = Cardinality(DOMAIN c.freqTable)
       /\ 1 <= e /\ e <= 256
       /\ Len(c.out) = 2 + entrySize * e + 8 + CeilDiv8(c.totalBits)
       /\ \A i \in 1..e :
            /\ c.out[at(i) + 1] \in DOMAIN c.freqTable
            /\ LEValue(SubSeq(c.out, at(i) + 2, at(i) + 5)) = c.freqTable[c.out[at(i) + 1]]
       /\ \A i, j \in 1..e : c.out[at(i) + 1] = c.out[at(j) + 1] => i = j
       /\ LEValue(SubSeq(c.out, tbAt + 1, tbAt + 8)) = c.totalBits
       /\ SubSeq(c.out, tbAt + 9, Len(c.out)) = c.encoded
       /\ Len(c.encoded) = CeilDiv8(c.totalBits)

\* C15 as stated: a blob of e entries and T bits has entries of 6 bytes, T at
\* offset 2 + 6e and the length 2 + 6e + 8 + ceil(T/8).
C15_Layout6 == (Compressed /\ ~comp.err) => LayoutWith(comp, 6)

\* C15 amended: a blob of e entries (1 <= e <= 256) and T bits is entryCount as
\* uint16 LE, e entries of 5 bytes (symbol byte, uint32 LE count, each symbol
\* once), T as uint64 LE at offset 2 + 5e, then exactly ceil(T/8) packed bytes;
\* its length is 2 + 5e + 8 + ceil(T/8).
C15_Layout5 == (Compressed /\ ~comp.err) => LayoutWith(comp, 5)

C15_Witness ==
    /\ op = "compress"
    /\ ~comp.err
    /\ DeclaredEntries(comp.out) = 3
    /\ comp.totalBits = 5
    /\ Len(comp.out) = 2 + 15 + 8 + 1

Count(data, b) == Cardinality({i \in DOMAIN data : data[i] = b})

RECURSIVE SumCounts(_)
SumCounts(freq) ==
    IF DOMAIN freq = {} THEN 0
    ELSE LET b == CHOOSE x \in DOMAIN freq : TRUE
         IN freq[b] + SumCounts([x \in DOMAIN freq \ {b} |-> freq[x]])

\* C17: the frequency table maps each byte of the input to its number of
\* occurrences, has no entry of count 0, has one entry per distinct byte, and its
\* counts sum to the input length.
C17_CountsExact ==
    (Compressed /\ ~comp.err)
        => /\ DOMAIN comp.freqTable = Range(comp.data)
           /\ \A b \in DOMAIN comp.freqTable :
                comp.freqTable[b] = Count(comp.data, b) /\ comp.freqTable[b] > 0
           /\ Cardinality(DOMAIN comp.freqTable) = Cardinality(Range(comp.data))
           /\ SumCounts(comp.freqTable) = Len(comp.data)

C17_Witness ==
    /\ op = "compress"
    /\ Len(comp.data) = 4
    /\ Cardinality(DOMAIN comp.freqTable) = 2
    /\ \E b \in DOMAIN comp.freqTable : comp.freqTable[b] = 3

\* C19: an input with at least two distinct byte values compresses without error
\* to a non-empty blob, and decompressing that blob returns the input without error.
\* For an input of two byte values the codes are the one-bit codes 0 (Left) and
\* 1 (Right), so the input comes back only if the tree the decoder builds from
\* the header has the Left symbol of the encoder's tree.
C19_RoundTripTwoSymbols ==
    /\ (Compressed /\ Cardinality(Range(comp.data)) >= 2)
          => (~comp.err /\ Len(comp.out) > 0)
    /\ (op = "roundtrip" /\ Cardinality(Range(comp.data)) >= 2)
          => (decomp.status = "ok" /\ decomp.out = comp.data)
    /\ (hdr.pc = "done" /\ Cardinality(DOMAIN hdr.freq) = 2)
          => (DOMAIN hdr.read = DOMAIN hdr.freq /\ LeftOfTwo(hdr.read) = LeftOfTwo(hdr.freq))

\* C18: for the 15-byte input "aaaaabbbbcccdde" the codes give totalBitCount = 33
\* and 5 packed bytes, fewer than the 15 input bytes, so the blob is shorter than
\* 15 bytes plus the header overhead (below 15 + 2 + 6*5 + 8, and below
\* 15 + 2 + 5*5 + 8 with the 5-byte entries of the code).
C18_SimpleASCIISize ==
    (Compressed /\ comp.data = SimpleASCII)
        => /\ ~comp.err
           /\ comp.totalBits = 33
           /\ Len(comp.encoded) = 5
           /\ Len(comp.encoded) < 15
           /\ Len(comp.out) < 15 + 2 + 6 * 5 + 8
           /\ Len(comp.out) < 15 + 2 + 5 * 5 + 8

C18_Witness ==
    /\ op = "roundtrip"
    /\ comp.data = SimpleASCII
    /\ Len(comp.out) = 40
    /\ decomp.out = SimpleASCII

\* the order of PriorityQueue.Less on two nodes
NodeLess(a, b) == a.Freq < b.Freq \/ (a.Freq = b.Freq /\ a.MinChar < b.MinChar)

\* C20: in every iteration of the merge loop the two nodes removed are the
\* smallest and the second smallest of the queue under (Freq, MinChar); the
\* smallest becomes Left and the second smallest Right of the new node, whose
\* Freq is their sum and whose MinChar is the smaller of their MinChars, and
\* which is pushed onto the queue.
C20_MergeStep ==
    tree.last # NoMerge
        => LET q == tree.last.before
               m == tree.last.merged
           IN /\ \E i, j \in DOMAIN q :
                   /\ i # j
                   /\ q[i] = tree.last.left
                   /\ q[j] = tree.last.right
                   /\ \A k \in DOMAIN q \ {i} : NodeLess(q[i], q[k])
                   /\ \A k \in DOMAIN q \ {i, j} : NodeLess(q[j], q[k])
              /\ m.Left = tree.last.left
              /\ m.Right = tree.last.right
              /\ m.Freq = m.Left.Freq + m.Right.Freq
              /\ m.MinChar = IF m.Left.MinChar < m.Right.MinChar
                             THEN m.Left.MinChar ELSE m.Right.MinChar
              /\ tree.pc = "merge" => \E k \in DOMAIN tree.pq : tree.pq[k] = m

\* a merge of two internal nodes of equal Freq, out of a queue of two
C20_Witness ==
    /\ tree.merges = 3
    /\ tree.last.left.Left # Nil
    /\ tree.last.right.Left # Nil
    /\ tree.last.left.Freq = tree.last.right.Freq
    /\ tree.last.left.MinChar < tree.last.right.MinChar

\* the outcomes of compressing the content upload on its own
AloneOutcomes(upload) ==
    {[err |-> HuffmanCompress(upload, t, h).err, out |-> HuffmanCompress(upload, t, h).out] :
        t \in Perms(Range(upload)), h \in Perms(Range(upload))}

\* C16: under every interleaving of concurrent CompressFile requests (uploads of
\* the same filename included) each request is answered with the outcome it has
\* when run alone: the blob of its own uploaded bytes.
C16_RequestsIsolated ==
    \A r \in Requests :
        srv.reqs[r].pc = "done" => srv.reqs[r].resp \in AloneOutcomes(srv.reqs[r].upload)

\* the symbols of the leaves of the tree at node, left to right
RECURSIVE LeafChars(_)
LeafChars(node) ==
    IF node = Nil THEN <<>>
    ELSE IF IsLeaf(node) THEN <<node.Char>>
    ELSE LeafChars(node.Left) \o LeafChars(node.Right)

\* the sum of the Freq of the leaves of the tree at node
RECURSIVE LeafFreqSum(_)
LeafFreqSum(node) ==
    IF node = Nil THEN 0
    ELSE IF IsLeaf(node) THEN node.Freq
    ELSE LeafFreqSum(node.Left) + LeafFreqSum(node.Right)

\* the number of nodes of the tree at node that are not leaves
RECURSIVE CountInternal(_)
CountInternal(node) ==
    IF node = Nil \/ IsLeaf(node) THEN 0
    ELSE 1 + CountInternal(node.Left) + CountInternal(node.Right)

\* every node of the tree at node is a leaf or has two non-nil children
RECURSIVE StrictBinary(_)
StrictBinary(node) ==
    \/ IsLeaf(node)
    \/ /\ node.Left # Nil
       /\ node.Right # Nil
       /\ StrictBinary(node.Left)
       /\ StrictBinary(node.Right)

MinOf(S) == CHOOSE x \in S : \A y \in S : x <= y

\* C21: for a table of m >= 1 entries the merge loop runs m-1 times and one root
\* is returned; the tree has m leaves, one per table symbol (so no node is under
\* two parents), and m-1 internal nodes, each with two non-nil children.
C21_StrictBinaryTree ==
    (tree.pc = "done" /\ DOMAIN tree.freq # {})
        => LET m == Cardinality(DOMAIN tree.freq)
           IN /\ tree.merges = m - 1
              /\ tree.root # Nil
              /\ tree.pq = <<>>
              /\ Len(LeafChars(tree.root)) = m
              /\ Range(LeafChars(tree.root)) = DOMAIN tree.freq
              /\ CountInternal(tree.root) = m - 1
              /\ StrictBinary(tree.root)

\* a tree of four leaves returned after three merges
C21_Witness ==
    /\ tree.pc = "done"
    /\ Cardinality(DOMAIN tree.freq) = 4
    /\ tree.merges = 3
    /\ CountInternal(tree.root) = 3

\* Freq and MinChar are consistent at every node of the tree at node
RECURSIVE Aggregates(_)
Aggregates(node) ==
    IF node = Nil THEN TRUE
    ELSE IF IsLeaf(node) THEN node.MinChar = node.Char
    ELSE /\ node.Freq = LeafFreqSum(node)
         /\ node.MinChar = MinOf(Range(LeafChars(node)))
         /\ Aggregates(node.Left)
         /\ Aggregates(node.Right)

\* C22: at every node of a built tree Freq is the sum of the frequencies of the
\* leaves below it and MinChar the smallest symbol among them; at a leaf MinChar
\* is Char; the root of the tree built by compress has Freq = the input length.
C22_Aggregates ==
    /\ (Compressed /\ ~comp.err)
          => (Aggregates(comp.root) /\ comp.root.Freq = Len(comp.data))
    /\ Decompressed => Aggregates(decomp.root)

\* a compression whose root takes its MinChar from its Right child
C22_Witness ==
    /\ op = "compress"
    /\ ~comp.err
    /\ ~IsLeaf(comp.root)
    /\ comp.root.Right.MinChar < comp.root.Left.MinChar
    /\ comp.root.Freq = 3

\* the symbols of the leaves under the queue entry n
LeafSet(n) == Range(LeafChars(n))

\* C27: at every point of tree construction the queued nodes cover pairwise
\* disjoint sets of symbols and have pairwise distinct MinChar, so no two of
\* them compare equal under (Freq, MinChar) and the minimum is unique.
C27_StrictOrder ==
    \A i, j \in DOMAIN tree.pq :
        i # j => /\ LeafSet(tree.pq[i]) \cap LeafSet(tree.pq[j]) = {}
                 /\ tree.pq[i].MinChar # tree.pq[j].MinChar
                 /\ NodeLess(tree.pq[i], tree.pq[j]) \/ NodeLess(tree.pq[j], tree.pq[i])

\* a queue of two merged nodes of equal Freq
C27_Witness ==
    /\ tree.pc = "merge"
    /\ Len(tree.pq) = 2
    /\ ~IsLeaf(tree.pq[1])
    /\ ~IsLeaf(tree.pq[2])
    /\ tree.pq[1].Freq = tree.pq[2].Freq

\* the node reached from node by the decoder's steps on the bits of code:
\* bit 0 goes to Left, bit 1 to Right
RECURSIVE walkCode(_, _)
walkCode(node, code) ==
    IF code = <<>> \/ node = Nil THEN node
    ELSE walkCode(IF Head(code) = 0 THEN node.Left ELSE node.Right, Tail(code))

\* the code table cm assigns to every leaf of the tree at root the bits of its
\* path: the walk of cm[b] ends at the leaf of b and meets no leaf before its end
CodesFollowPaths(root, cm) ==
    /\ DOMAIN cm = LeafSet(root)
    /\ \A b \in DOMAIN cm :
         /\ walkCode(root, cm[b]) # Nil
         /\ IsLeaf(walkCode(root, cm[b]))
         /\ walkCode(root, cm[b]).Char = b
         /\ \A k \in 0..(Len(cm[b]) - 1) :
              LET n == walkCode(root, SubSeq(cm[b], 1, k))
              IN n # Nil /\ ~IsLeaf(n)

\* C23: the code of every leaf is the sequence of branch bits from the root to it
\* (0 for Left, 1 for Right): walking a symbol's code from the root by the
\* decoder's rule ends at that symbol's leaf and passes through no other leaf.
C23_CodesFollowPaths ==
    /\ (Compressed /\ ~comp.err) => CodesFollowPaths(comp.root, comp.codeMap)
    /\ (Decompressed /\ decomp.root # Nil)
          => CodesFollowPaths(decomp.root, generateCodes(decomp.root, <<>>, EmptyMap))

\* a compression of three symbols, one of them two Right steps below the root
C23_Witness ==
    /\ op = "compress"
    /\ ~comp.err
    /\ Cardinality(DOMAIN comp.codeMap) = 3
    /\ \E b \in DOMAIN comp.codeMap : comp.codeMap[b] = <<1, 1>>

\* the codes of the bytes of data, concatenated
RECURSIVE ConcatCodes(_, _)
ConcatCodes(data, cm) ==
    IF data = <<>> THEN <<>> ELSE CodeOf(cm, Head(data)) \o ConcatCodes(Tail(data), cm)

\* bit k (from 0) of the byte sequence bs: byte k div 8, bit position 7 - (k mod 8)
BitAt(bs, k) == (bs[(k \div 8) + 1] \div Pow2(7 - (k % 8))) % 2

\* C24: encodeDataWithCount returns totalBits = the sum of the code lengths of
\* the input bytes and ceil(totalBits/8) packed bytes; bit k of the concatenated
\* codes is in byte k div 8 at bit position 7 - (k mod 8), and the bit positions
\* at or beyond totalBits are 0.
C24_BitPacking ==
    enc.pc = "done"
        => LET bits == ConcatCodes(enc.data, enc.codeMap)
           IN /\ enc.totalBits = Len(bits)
              /\ Len(enc.encoded) = CeilDiv8(enc.totalBits)
              /\ \A k \in 0..(Len(bits) - 1) : BitAt(enc.encoded, k) = bits[k + 1]
              /\ \A k \in Len(bits)..(8 * Len(enc.encoded) - 1) : BitAt(enc.encoded, k) = 0

\* ten bits packed, a code of three bits lying across the two bytes
C24_Witness ==
    /\ enc.pc = "done"
    /\ enc.totalBits = 10
    /\ enc.encoded = <<253, 192>>
    /\ enc.data = <<65, 65, 66, 65>>
    /\ enc.codeMap[65] = <<1, 1, 1>>
    /\ enc.codeMap[66] = <<0>>

\* the first n bits of the byte sequence bs, the top bit of each byte first
StreamBits(bs, n) == [k \in 1..n |-> BitAt(bs, k - 1)]

\* the tree of dec has at least two leaves and the packed section holds at least
\* totalBitCount bits
DecWellFormed ==
    /\ dec.pc \notin {"idle", "error"}
    /\ Cardinality(DOMAIN dec.freq) >= 2
    /\ 8 * Len(dec.bitData) >= dec.totalBits

\* C25: for a tree of at least two leaves and a packed section of at least
\* totalBitCount bits the decode loop ends after consuming exactly totalBitCount
\* bits, read from the top bit of each byte down; a symbol is emitted each time a
\* leaf is reached and the pointer then returns to the root, so at every point
\* the bits consumed are the codes of the symbols emitted, in order, followed by
\* the path from the root to the traverse pointer.
C25_DecodeLoop ==
    DecWellFormed
        => LET cm == generateCodes(dec.root, <<>>, EmptyMap)
               codes == ConcatCodes(dec.st.out, cm)
               read == StreamBits(dec.bitData, dec.st.bitsRead)
           IN /\ dec.pc # "panic"
              /\ dec.st.bitsRead <= dec.totalBits
              /\ dec.pc = "done" => dec.st.bitsRead = dec.totalBits
              /\ IsPrefix(codes, read)
              /\ dec.st.node # Nil
              /\ ~IsLeaf(dec.st.node)
              /\ walkCode(dec.root, SubSeq(read, Len(codes) + 1, Len(read))) = dec.st.node

\* a decode that returned after nine bits, across the byte boundary, with
\* symbols of one-bit and two-bit codes emitted and the pointer back at the root
C25_Witness ==
    /\ DecWellFormed
    /\ dec.pc = "done"
    /\ dec.totalBits = 9
    /\ dec.i = 2
    /\ dec.st.node = dec.root
    /\ Cardinality(Range(dec.st.out)) = 3

\* C28: with a tree of two or more leaves and at least totalBitCount bits in the
\* packed section, the traverse pointer is an internal node with two non-nil
\* children at the start of every bit step, so no nil child is followed.
C28_NoNilStep ==
    DecWellFormed
        => /\ dec.pc # "panic"
           /\ (dec.pc = "inner" /\ dec.j < 8 /\ dec.st.bitsRead < dec.totalBits)
                 => /\ dec.st.node # Nil
                    /\ dec.st.node.Left # Nil
                    /\ dec.st.node.Right # Nil

\* the first bit step of the second byte about to start, just after a symbol was
\* emitted
C28_Witness ==
    /\ DecWellFormed
    /\ dec.pc = "inner"
    /\ dec.i = 1
    /\ dec.j = 0
    /\ dec.st.bitsRead < dec.totalBits
    /\ dec.st.node = dec.root
    /\ Len(dec.st.out) >= 2

\* the shape of the page's tree with the key of every leaf
RECURSIVE vizShape(_)
vizShape(n) ==
    IF n = Nil THEN [none |-> TRUE]
    ELSE IF n.left = Nil /\ n.right = Nil THEN [leaf |-> n.char]
    ELSE [l |-> vizShape(n.left), r |-> vizShape(n.right)]

\* the shape of the decoder's tree with the byte of every leaf, written as the
\* page writes it
RECURSIVE decShape(_)
decShape(n) ==
    IF n = Nil THEN [none |-> TRUE]
    ELSE IF IsLeaf(n) THEN [leaf |-> HexKey(n.Char)]
    ELSE [l |-> decShape(n.Left), r |-> decShape(n.Right)]

\* C26: for every compressed file the tree the page builds from the parsed
\* header has the shape and the leaf placement of the tree HuffmanDecompress
\* builds from that header, so the edge labels on the path to a byte spell its code.
C26_VisualizerShowsDecodingTree ==
    op = "visualize" => (viz.status = "drawn" /\ vizShape(viz.root) = decShape(viz.decRoot))

\* C29: the value writeHeader stores for a symbol, its count converted to
\* uint32, is the symbol's true count (a count of 2^32 or more is not written
\* as count mod 2^32), so decompress builds its tree from the encoder's
\* frequencies.
C29_NoTruncation ==
    hdr.pc = "done"
        => /\ DOMAIN hdr.read = DOMAIN hdr.freq
           /\ \A b \in DOMAIN hdr.freq : hdr.read[b] = hdr.freq[b]

====
